---- MODULE Spec2Model ----
(***************************************************************************)
(* Factory Method demo (Assignment6_2409/app.js): the product classes,     *)
(* the creators, the ProductFactory registry and the UI wiring, as a state *)
(* machine.                                                                *)
(*                                                                         *)
(* JavaScript values are modelled by what the code does with them:         *)
(*   - a string is a sequence of one-character strings;                    *)
(*   - a number is [k, v]: k = "fin" with v the value in hundredths,       *)
(*     k = "inf" with v = 1 or -1, or k = "nan";                           *)
(*   - a value is [t, s, n]: undefined, a string s or a number n.          *)
(***************************************************************************)
EXTENDS Integers, Sequences, FiniteSets, TLC

(***************************************************************************)
(* Numbers                                                                 *)
(***************************************************************************)
\* Finite numbers carry two fractional decimal digits.
Scale == 10 * 10

Fin(v) == [k |-> "fin", v |-> v]
NaN == [k |-> "nan", v |-> 0]
Inf(sign) == [k |-> "inf", v |-> sign]
IntNum(i) == Fin(i * Scale)

(***************************************************************************)
(* Values                                                                  *)
(***************************************************************************)
Undef == [t |-> "undef", s |-> <<>>, n |-> NaN]
Str(s) == [t |-> "str", s |-> s, n |-> NaN]
NumV(n) == [t |-> "num", s |-> <<>>, n |-> n]

\* ToBoolean: undefined, "", 0 and NaN are falsy.
Truthy(x) ==
  CASE x.t = "undef" -> FALSE
    [] x.t = "str" -> Len(x.s) > 0
    [] x.t = "num" -> ~(x.n.k = "nan" \/ (x.n.k = "fin" /\ x.n.v = 0))

\* a || b
OrElse(a, b) == IF Truthy(a) THEN a ELSE b

(***************************************************************************)
(* Strings                                                                 *)
(***************************************************************************)
Digits == <<"0", "1", "2", "3", "4", "5", "6", "7", "8", "9">>
IsDigit(c) == \E i \in 1..10 : Digits[i] = c
DigitVal(c) == (CHOOSE i \in 1..10 : Digits[i] = c) - 1
DigitChar(d) == Digits[d + 1]

InfinityStr == <<"I", "n", "f", "i", "n", "i", "t", "y">>
NaNStr == <<"N", "a", "N">>
UndefinedStr == <<"u", "n", "d", "e", "f", "i", "n", "e", "d">>
UntitledStr == <<"U", "n", "t", "i", "t", "l", "e", "d">>
UnknownStr == <<"U", "n", "k", "n", "o", "w", "n">>
GenericStr == <<"G", "e", "n", "e", "r", "i", "c">>
CloneSuffix == <<" ", "(", "c", "l", "o", "n", "e", ")">>

RECURSIVE TrimLeft(_)
TrimLeft(s) == IF s # <<>> /\ Head(s) = " " THEN TrimLeft(Tail(s)) ELSE s

RECURSIVE TrimRight(_)
TrimRight(s) ==
  IF s # <<>> /\ s[Len(s)] = " " THEN TrimRight(SubSeq(s, 1, Len(s) - 1)) ELSE s

\* String.prototype.trim
Trim(s) == TrimRight(TrimLeft(s))

StartsWith(s, p) == Len(s) >= Len(p) /\ SubSeq(s, 1, Len(p)) = p

\* The longest prefix of s made of decimal digits.
RECURSIVE DigitPrefix(_)
DigitPrefix(s) ==
  IF s # <<>> /\ IsDigit(Head(s)) THEN <<Head(s)>> \o DigitPrefix(Tail(s)) ELSE <<>>

RECURSIVE DigitsValue(_)
DigitsValue(ds) ==
  IF ds = <<>> THEN 0
  ELSE 10 * DigitsValue(SubSeq(ds, 1, Len(ds) - 1)) + DigitVal(ds[Len(ds)])

RECURSIVE NatToString(_)
NatToString(i) ==
  IF i < 10 THEN <<DigitChar(i)>> ELSE NatToString(i \div 10) \o <<DigitChar(i % 10)>>

\* Number::toString for the numbers of the model.
NumToString(n) ==
  CASE n.k = "nan" -> NaNStr
    [] n.k = "inf" -> IF n.v < 0 THEN <<"-">> \o InfinityStr ELSE InfinityStr
    [] n.k = "fin" ->
        LET a == IF n.v < 0 THEN 0 - n.v ELSE n.v
            whole == NatToString(a \div Scale)
            f == a % Scale
            frac == IF f = 0 THEN <<>>
                    ELSE IF f % 10 = 0 THEN <<".", DigitChar(f \div 10)>>
                    ELSE <<".", DigitChar(f \div 10), DigitChar(f % 10)>>
        IN (IF n.v < 0 THEN <<"-">> ELSE <<>>) \o whole \o frac

\* ToString of a value.
ToStr(x) ==
  CASE x.t = "undef" -> UndefinedStr
    [] x.t = "str" -> x.s
    [] x.t = "num" -> NumToString(x.n)

\* parseFloat on a string: leading blanks, a sign, then Infinity or
\* digits [. digits]; NaN when no digit is read.  Digits after the second
\* fractional one are below the model's resolution, and no input of the
\* model carries an exponent part.
ParseFloatStr(str) ==
  LET t == TrimLeft(str)
      neg == t # <<>> /\ Head(t) = "-"
      signed == t # <<>> /\ Head(t) \in {"-", "+"}
      u == IF signed THEN Tail(t) ELSE t
      sign == IF neg THEN -1 ELSE 1
      ip == DigitPrefix(u)
      r == SubSeq(u, Len(ip) + 1, Len(u))
      fp == IF r # <<>> /\ Head(r) = "." THEN DigitPrefix(Tail(r)) ELSE <<>>
      f2 == SubSeq(fp \o <<"0", "0">>, 1, 2)
  IN IF StartsWith(u, InfinityStr) THEN Inf(sign)
     ELSE IF ip = <<>> /\ fp = <<>> THEN NaN
     ELSE Fin(sign * (DigitsValue(ip) * Scale + DigitsValue(f2)))

\* parseFloat(x): x is converted to a string first.
ParseFloat(x) == ParseFloatStr(ToStr(x))

\* parseInt(x, 10): leading blanks, a sign, then digits; NaN when none.
ParseInt(x) ==
  LET t == TrimLeft(ToStr(x))
      neg == t # <<>> /\ Head(t) = "-"
      signed == t # <<>> /\ Head(t) \in {"-", "+"}
      u == IF signed THEN Tail(t) ELSE t
      ip == DigitPrefix(u)
  IN IF ip = <<>> THEN NaN
     ELSE IntNum((IF neg THEN -1 ELSE 1) * DigitsValue(ip))

(***************************************************************************)
(* Raw field records                                                       *)
(***************************************************************************)
FieldNames ==
  {"name", "price", "brand", "warrantyYears", "size", "material", "author", "pages"}

\* {}: every field reads undefined.
EmptyData == [f \in FieldNames |-> Undef]

\* Object.assign(base, rec)
Assign(base, rec) ==
  [f \in FieldNames |-> IF f \in DOMAIN rec THEN rec[f] ELSE base[f]]

(***************************************************************************)
(* Product classes                                                         *)
(***************************************************************************)
\* `p_${Date.now()}_${Math.floor(Math.random()*1000)}`
ProductId(time, rand) == <<"p", time, rand>>

\* parseFloat(price) || 0
PriceOf(price) == OrElse(NumV(ParseFloat(price)), NumV(IntNum(0)))

\* Product's constructor: the fields every product has.  oid is the identity
\* of the allocated object.
ProductFields(cls, data, oid, time, rand, own) ==
  [cls |-> cls,
   oid |-> oid,
   name |-> data.name,
   price |-> PriceOf(data.price),
   id |-> ProductId(time, rand),
   own |-> own]

ElectronicsProduct(data, oid, time, rand) ==
  ProductFields("ElectronicsProduct", data, oid, time, rand,
    [brand |-> OrElse(data.brand, Str(UnknownStr)),
     warrantyYears |-> OrElse(data.warrantyYears, NumV(IntNum(1)))])

ClothingProduct(data, oid, time, rand) ==
  ProductFields("ClothingProduct", data, oid, time, rand,
    [size |-> OrElse(data.size, Str(<<"M">>)),
     material |-> OrElse(data.material, Str(UnknownStr))])

BookProduct(data, oid, time, rand) ==
  ProductFields("BookProduct", data, oid, time, rand,
    [author |-> OrElse(data.author, Str(UnknownStr)),
     pages |-> OrElse(data.pages, NumV(IntNum(0)))])

\* meta(): the variant's own fields.
Meta(p) == p.own

\* Number.prototype.toFixed(2)
ToFixed2(n) ==
  IF n.k # "fin" THEN NumToString(n)
  ELSE LET a == IF n.v < 0 THEN 0 - n.v ELSE n.v
       IN (IF n.v < 0 THEN <<"-">> ELSE <<>>)
            \o NatToString(a \div Scale)
            \o <<".", DigitChar((a % Scale) \div 10), DigitChar(a % 10)>>

\* The dash and the rupee sign of the descriptions, by their HTML names.
Dash == <<" ", "&mdash;", " ">>
Rupee == <<"&#8377;">>

\* describe() of each class.
Describe(p) ==
  CASE p.cls = "ElectronicsProduct" ->
         ToStr(p.name) \o <<" ", "(">> \o ToStr(p.own.brand) \o <<")">> \o Dash
           \o Rupee \o ToFixed2(p.price.n) \o Dash
           \o ToStr(p.own.warrantyYears) \o <<"y", "r", " ", "w", "a", "r", "r", "a", "n", "t", "y">>
    [] p.cls = "ClothingProduct" ->
         ToStr(p.name) \o Dash \o <<"S", "i", "z", "e", ":", " ">> \o ToStr(p.own.size)
           \o Dash \o ToStr(p.own.material) \o Dash \o Rupee \o ToFixed2(p.price.n)
    [] p.cls = "BookProduct" ->
         <<"\"">> \o ToStr(p.name) \o <<"\"", " ", "b", "y", " ">> \o ToStr(p.own.author)
           \o Dash \o ToStr(p.own.pages) \o <<" ", "p", "a", "g", "e", "s">>
           \o Dash \o Rupee \o ToFixed2(p.price.n)

(***************************************************************************)
(* Results of a call: a returned value or a thrown Error                   *)
(***************************************************************************)
NoProduct == [cls |-> "none"]
NoMessage == <<>>
Return(v) == [thrown |-> FALSE, value |-> v, message |-> NoMessage]
Throw(msg) == [thrown |-> TRUE, value |-> NoProduct, message |-> msg]

MustOverrideMessage == <<"factoryMethod() must be implemented by subclasses">>
NoCreatorMessage(type) == <<"No creator registered for type \"", type, "\"">>

(***************************************************************************)
(* Creators                                                                *)
(***************************************************************************)
Creators == {"ElectronicsCreator", "ClothingCreator", "BookCreator", "ProductCreator"}

\* BookCreator pasted from ClothingCreator with the class left as it was.
FactoryMethod_PastedBook(creator, data, oid, time, rand) ==
  CASE creator = "ElectronicsCreator" -> Return(ElectronicsProduct(data, oid, time, rand))
    [] creator = "ClothingCreator" -> Return(ClothingProduct(data, oid, time, rand))
    [] creator = "BookCreator" -> Return(ClothingProduct(data, oid, time, rand))
    [] creator = "ProductCreator" -> Throw(MustOverrideMessage)

\* factoryMethod of each creator class; the base class throws.
FactoryMethod(creator, data, oid, time, rand) ==
  CASE creator = "ElectronicsCreator" -> Return(ElectronicsProduct(data, oid, time, rand))
    [] creator = "ClothingCreator" -> Return(ClothingProduct(data, oid, time, rand))
    [] creator = "BookCreator" -> Return(BookProduct(data, oid, time, rand))
    [] creator = "ProductCreator" -> Throw(MustOverrideMessage)

\* ProductCreator.create
CreatorCreate(creator, data, oid, time, rand) ==
  FactoryMethod(creator, data, oid, time, rand)

(***************************************************************************)
(* The registry: a Map, kept as its entries in insertion order             *)
(***************************************************************************)
NoCreator == "undefined"

MapIndex(m, key) ==
  IF \E i \in 1..Len(m) : m[i].type = key
  THEN CHOOSE i \in 1..Len(m) : m[i].type = key /\ \A j \in 1..(i - 1) : m[j].type # key
  ELSE 0

\* Map.prototype.get
MapGet(m, key) == IF MapIndex(m, key) = 0 THEN NoCreator ELSE m[MapIndex(m, key)].creator

\* A set that never looks for the key.
MapSet_AlwaysAppends(m, key, value) == Append(m, [type |-> key, creator |-> value])

\* Map.prototype.set: an existing key keeps its place, a new one is appended.
MapSet(m, key, value) ==
  IF MapIndex(m, key) = 0
  THEN Append(m, [type |-> key, creator |-> value])
  ELSE [m EXCEPT ![MapIndex(m, key)] = [type |-> key, creator |-> value]]

\* A delete that drops nothing.
MapDelete_Keeps(m, key) == m

\* Map.prototype.delete
MapDelete(m, key) ==
  IF MapIndex(m, key) = 0 THEN m
  ELSE SubSeq(m, 1, MapIndex(m, key) - 1) \o SubSeq(m, MapIndex(m, key) + 1, Len(m))

\* Array.from(registry.keys())
MapKeys(m) == [i \in 1..Len(m) |-> m[i].type]

BuiltinTags == {"electronics", "clothing", "book"}
Tags == BuiltinTags \cup {"widget"}

\* The registry after the built-in creators are registered.
InitialRegistry ==
  MapSet(MapSet(MapSet(<<>>, "electronics", "ElectronicsCreator"),
                "clothing", "ClothingCreator"),
         "book", "BookCreator")

\* The error message built from the creator looked up, not from the type.
FactoryCreateIn_NamesCreator(m, type, data, oid, time, rand) ==
  IF MapGet(m, type) = NoCreator
  THEN Throw(NoCreatorMessage(MapGet(m, type)))
  ELSE CreatorCreate(MapGet(m, type), data, oid, time, rand)

\* ProductFactory.create against registry m.
FactoryCreateIn(m, type, data, oid, time, rand) ==
  IF MapGet(m, type) = NoCreator
  THEN Throw(NoCreatorMessage(type))
  ELSE CreatorCreate(MapGet(m, type), data, oid, time, rand)

\* ProductFactory.availableTypes against registry m.
AvailableTypesIn(m) == MapKeys(m)

(***************************************************************************)
(* State                                                                   *)
(***************************************************************************)
VARIABLES
  registry,     \* ProductFactory's Map
  created,      \* the UI's array of products
  productList,  \* the <li> children of #productList: [id, prod]
  productType,  \* #productType.value
  typeFields,   \* the inputs inside #typeFields: element id -> value
  nameInput,    \* #name.value
  priceInput,   \* #price.value
  now,          \* Date.now()
  nextOid,      \* the number of product objects allocated so far
  lastCall,     \* per tag, the latest register or unregister call on it
  last          \* the call or event handled last, and how it ended

vars ==
  <<registry, created, productList, productType, typeFields, nameInput,
    priceInput, now, nextOid, lastCall, last>>

ui == <<created, productList, productType, typeFields, nameInput, priceInput>>

\* Bounds of the model: the clock's last value, and the product objects
\* allocated in one run.
MaxTime == 1
MaxProducts == 2

\* Math.floor(Math.random()*1000) ranges over 0..RandRange-1; the model
\* draws its two ends.
RandRange == 1000
Rands == {0, RandRange - 1}

\* How a call or a handler ended: what it returned or threw, the message
\* alert() showed, and the message of an error no handler caught.
\* arg is the call's other argument: the creator registered, or the product
\* of the <li> clicked.
Ended(op, type, arg, data, result, alert, uncaught) ==
  [op |-> op, type |-> type, arg |-> arg, data |-> data, result |-> result,
   alert |-> alert, uncaught |-> uncaught]

Quiet(op, type, arg) ==
  Ended(op, type, arg, EmptyData, Return(NoProduct), NoMessage, NoMessage)

\* renderTypeFields: the inputs #typeFields holds for a type, with the
\* values a fresh input or select has.
RenderTypeFields(type) ==
  CASE type = "electronics" -> [brand |-> <<>>, warranty |-> <<>>]
    [] type = "clothing" -> [size |-> <<"S">>, material |-> <<>>]
    [] type = "book" -> [author |-> <<>>, pages |-> <<>>]
    [] OTHER -> <<>>

\* The options of the size select.
SizeOptions == {<<"S">>, <<"M">>, <<"L">>, <<"X", "L">>}

\* The options of #productType that renderTypeFields knows.
SelectOptions == BuiltinTags

\* The state after the script has run, with #productType showing `type`.
InitAt(type) ==
  /\ registry = InitialRegistry
  /\ created = <<>>
  /\ productList = <<>>
  /\ productType = type
  /\ typeFields = RenderTypeFields(productType)
  /\ nameInput = <<>>
  /\ priceInput = <<>>
  /\ now = 0
  /\ nextOid = 0
  /\ lastCall = [t \in Tags |-> "none"]
  /\ last = Quiet("init", "", NoCreator)

\* The page's markup decides which option #productType shows first.
Init == \E type \in SelectOptions : InitAt(type)

(***************************************************************************)
(* ProductFactory's interface                                              *)
(***************************************************************************)
\* ProductFactory.register(type, creatorInstance)
Register(type, creator) ==
  /\ registry' = MapSet(registry, type, creator)
  /\ lastCall' = [lastCall EXCEPT ![type] = creator]
  /\ last' = Quiet("register", type, creator)
  /\ UNCHANGED <<ui, now, nextOid>>

\* ProductFactory.unregister(type)
Unregister(type) ==
  /\ registry' = MapDelete(registry, type)
  /\ lastCall' = [lastCall EXCEPT ![type] = "unregister"]
  /\ last' = Quiet("unregister", type, NoCreator)
  /\ UNCHANGED <<ui, now, nextOid>>

\* The objects a call of ProductFactory.create allocates.
Allocated(result) == IF result.thrown THEN 0 ELSE 1

\* ProductFactory.create(type, data), called directly.
FactoryCreate(type, data, rand) ==
  /\ LET result == FactoryCreateIn(registry, type, data, nextOid, now, rand)
     IN /\ last' = Ended("create", type, NoCreator, data, result, NoMessage,
                         IF result.thrown THEN result.message ELSE NoMessage)
        /\ nextOid' = nextOid + Allocated(result)
  /\ UNCHANGED <<registry, ui, now, lastCall>>

\* Time passes.
Tick ==
  /\ now < MaxTime
  /\ now' = now + 1
  /\ last' = Quiet("tick", "", NoCreator)
  /\ UNCHANGED <<registry, ui, nextOid, lastCall>>

(***************************************************************************)
(* The UI                                                                  *)
(***************************************************************************)
\* The user picks a product type: the change handler runs renderTypeFields.
SelectType(type) ==
  /\ productType' = type
  /\ typeFields' = RenderTypeFields(type)
  /\ last' = Quiet("selectType", type, NoCreator)
  /\ UNCHANGED <<registry, created, productList, nameInput, priceInput, now, nextOid, lastCall>>

\* The user edits #name.
TypeName(s) ==
  /\ nameInput' = s
  /\ last' = Quiet("typeName", "", NoCreator)
  /\ UNCHANGED <<registry, created, productList, productType, typeFields,
                 priceInput, now, nextOid, lastCall>>

\* The user edits #price.
TypePrice(s) ==
  /\ priceInput' = s
  /\ last' = Quiet("typePrice", "", NoCreator)
  /\ UNCHANGED <<registry, created, productList, productType, typeFields,
                 nameInput, now, nextOid, lastCall>>

\* The user edits one of the inputs inside #typeFields.
EditField(el, s) ==
  /\ el \in DOMAIN typeFields
  /\ typeFields' = [typeFields EXCEPT ![el] = s]
  /\ last' = Quiet("editField", el, NoCreator)
  /\ UNCHANGED <<registry, created, productList, productType, nameInput,
                 priceInput, now, nextOid, lastCall>>

\* (document.getElementById(el) || {}).value
FieldValue(el) == IF el \in DOMAIN typeFields THEN Str(typeFields[el]) ELSE Undef

\* addProductToUI: the <li> appended for prod, with its dataset.id, the text
\* it shows and the product its handlers close over.
Li(prod) == [id |-> prod.id, text |-> Describe(prod), prod |-> prod]

\* The raw field record the create handler collects from the form.
FormData ==
  LET name == OrElse(Str(Trim(nameInput)), Str(UntitledStr))
      price == OrElse(NumV(ParseFloatStr(priceInput)), NumV(IntNum(0)))
      base == Assign(EmptyData, [name |-> name, price |-> price])
  IN CASE productType = "electronics" ->
            Assign(base,
              [brand |-> OrElse(FieldValue("brand"), Str(GenericStr)),
               warrantyYears |->
                 NumV(ParseInt(OrElse(FieldValue("warranty"), NumV(IntNum(1)))))])
       [] productType = "clothing" ->
            Assign(base,
              [size |-> OrElse(FieldValue("size"), Str(<<"M">>)),
               material |-> OrElse(FieldValue("material"), Str(UnknownStr))])
       [] productType = "book" ->
            Assign(base,
              [author |-> OrElse(FieldValue("author"), Str(UnknownStr)),
               pages |->
                 NumV(ParseInt(OrElse(FieldValue("pages"), NumV(IntNum(0)))))])
       [] OTHER -> base

\* The click handler of #createBtn.
CreateClick(rand) ==
  /\ LET result == FactoryCreateIn(registry, productType, FormData, nextOid, now, rand)
     IN IF result.thrown
        THEN /\ last' = Ended("createClick", productType, NoCreator, FormData, result,
                              result.message, NoMessage)
             /\ UNCHANGED <<created, productList, nameInput, priceInput, nextOid>>
        ELSE /\ created' = Append(created, result.value)
             /\ productList' = Append(productList, Li(result.value))
             /\ nameInput' = <<>>
             /\ priceInput' = <<>>
             /\ nextOid' = nextOid + 1
             /\ last' = Ended("createClick", productType, NoCreator, FormData, result,
                              NoMessage, NoMessage)
  /\ UNCHANGED <<registry, productType, typeFields, now, lastCall>>

\* The type the clone handler reads off the product's class.
NoType == "null"
CloneType(prod) ==
  CASE prod.cls = "ElectronicsProduct" -> "electronics"
    [] prod.cls = "ClothingProduct" -> "clothing"
    [] prod.cls = "BookProduct" -> "book"
    [] OTHER -> NoType

\* A clone record that leaves the price out.
CloneData_NoPrice(prod) ==
  Assign(Assign(EmptyData, Meta(prod)),
         [name |-> Str(ToStr(prod.name) \o CloneSuffix)])

\* The raw field record the clone handler builds from a product.
CloneData(prod) ==
  Assign(Assign(EmptyData, Meta(prod)),
         [name |-> Str(ToStr(prod.name) \o CloneSuffix), price |-> prod.price])

\* The click handler of the Clone button of the i-th <li>.
CloneClick(i, rand) ==
  /\ i \in 1..Len(productList)
  /\ LET prod == productList[i].prod
         type == CloneType(prod)
         result == FactoryCreateIn(registry, type, CloneData(prod), nextOid, now, rand)
     IN IF type = NoType
        THEN /\ last' = Quiet("cloneClick", type, prod)
             /\ UNCHANGED <<created, productList, nextOid>>
        ELSE IF result.thrown
        THEN /\ last' = Ended("cloneClick", type, prod, CloneData(prod), result,
                              NoMessage, result.message)
             /\ UNCHANGED <<created, productList, nextOid>>
        ELSE /\ created' = Append(created, result.value)
             /\ productList' = Append(productList, Li(result.value))
             /\ nextOid' = nextOid + 1
             /\ last' = Ended("cloneClick", type, prod, CloneData(prod), result,
                              NoMessage, NoMessage)
  /\ UNCHANGED <<registry, productType, typeFields, nameInput, priceInput, now, lastCall>>

\* created.findIndex(p => p.id === id), counted from 1; 0 when none.
FindIndex(list, id) ==
  IF \E k \in 1..Len(list) : list[k].id = id
  THEN CHOOSE k \in 1..Len(list) :
         list[k].id = id /\ \A j \in 1..(k - 1) : list[j].id # id
  ELSE 0

\* list.splice(k, 1), and li.remove() on the k-th child.
RemoveAt(list, k) == SubSeq(list, 1, k - 1) \o SubSeq(list, k + 1, Len(list))

\* The click handler of the Remove button of the i-th <li>.
RemoveClick(i) ==
  /\ i \in 1..Len(productList)
  /\ LET idx == FindIndex(created, productList[i].prod.id)
     IN IF idx > 0
        THEN /\ created' = RemoveAt(created, idx)
             /\ productList' = RemoveAt(productList, i)
        ELSE UNCHANGED <<created, productList>>
  /\ last' = Quiet("removeClick", "", productList[i].prod)
  /\ UNCHANGED <<registry, productType, typeFields, nameInput, priceInput, now, nextOid, lastCall>>

\* The click handler of #clearBtn.
ClearClick ==
  /\ created' = <<>>
  /\ productList' = <<>>
  /\ last' = Quiet("clearClick", "", NoCreator)
  /\ UNCHANGED <<registry, productType, typeFields, nameInput, priceInput, now, nextOid, lastCall>>

(***************************************************************************)
(* Specifications                                                          *)
(***************************************************************************)
\* Raw field records passed to ProductFactory.create by a caller of the
\* registry: {} and the Dune example.
DuneData ==
  Assign(EmptyData,
    [name |-> Str(<<"D", "u", "n", "e">>),
     price |-> Str(<<"1", "2", ".", "5">>),
     author |-> Str(<<"H">>),
     pages |-> NumV(IntNum(412))])

FactoryData == {EmptyData, DuneData}

\* The tags callers register creators for: a built-in one and a new one.
RegisterTags == {"book", "widget"}

\* The registry under calls of its interface.
NextFactory ==
  \/ \E t \in RegisterTags, c \in Creators : Register(t, c)
  \/ \E t \in Tags : Unregister(t)
  \/ /\ nextOid < MaxProducts
     /\ \E t \in Tags, d \in FactoryData : FactoryCreate(t, d, 0)

SpecFactory == InitAt("electronics") /\ [][NextFactory]_vars

\* Values a caller may put in the fields of a raw field record.
NameValues == {Undef, Str(<<"F", "a", "n">>)}
PriceValues ==
  {Undef, Str(<<>>), Str(<<"b", "a", "d">>), Str(<<"1", "2", ".", "5">>),
   Str(<<"-", "5">>), Str(InfinityStr), NumV(Fin(1250)), NumV(IntNum(0))}
BrandValues == {Undef, Str(<<"A", "c", "m", "e">>)}
WarrantyValues ==
  {Undef, NumV(IntNum(3)), NumV(IntNum(0)), NumV(IntNum(-2)), NumV(Fin(150)), NumV(NaN)}
SizeValues == {Undef, Str(<<"S">>), Str(<<"X", "L">>), Str(<<"X", "X", "L">>)}
MaterialValues == {Undef, Str(<<"C">>)}
AuthorValues == {Undef, Str(<<"H">>)}
PagesValues == {Undef, NumV(IntNum(412)), NumV(IntNum(0)), NumV(IntNum(-5))}

BaseRecords ==
  {Assign(EmptyData, [name |-> n, price |-> p]) : n \in NameValues, p \in PriceValues}

\* The raw field records tried with a type: the fields its variant reads.
RawRecords(type) ==
  CASE type = "electronics" ->
         {Assign(b, [brand |-> x, warrantyYears |-> y]) :
            b \in BaseRecords, x \in BrandValues, y \in WarrantyValues}
    [] type = "clothing" ->
         {Assign(b, [size |-> x, material |-> y]) :
            b \in BaseRecords, x \in SizeValues, y \in MaterialValues}
    [] type = "book" ->
         {Assign(b, [author |-> x, pages |-> y]) :
            b \in BaseRecords, x \in AuthorValues, y \in PagesValues}
    [] OTHER -> {EmptyData}

\* Construction through the registry as the script leaves it.
NextCtor ==
  /\ nextOid < MaxProducts
  /\ \E t \in Tags : \E d \in RawRecords(t) : FactoryCreate(t, d, 0)

SpecCtor == InitAt("electronics") /\ [][NextCtor]_vars

\* What the user types into the form; material and author are left empty,
\* being read the way brand is.
NameInputs == {<<" ", "A", " ">>}
PriceInputs == {<<"-", "5">>, <<"1", "2", ".", "5">>}
FieldInputs(el) ==
  CASE el = "brand" -> {<<"B">>}
    [] el = "warranty" -> {<<"0">>, <<"-", "2">>}
    [] el = "size" -> SizeOptions
    [] el = "material" -> {}
    [] el = "author" -> {}
    [] el = "pages" -> {<<"0">>, <<"-", "5">>}

\* The user fills the form in before the first product is made.
FillForm ==
  /\ nextOid = 0
  /\ \/ \E s \in NameInputs : TypeName(s)
     \/ \E s \in PriceInputs : TypePrice(s)
     \/ \E el \in DOMAIN typeFields : \E s \in FieldInputs(el) : EditField(el, s)

\* One product made from the form, then its clones: the page with the
\* registry changed under it.
NextClone ==
  \/ FillForm
  \/ \E t \in SelectOptions : SelectType(t)
  \/ nextOid < MaxProducts /\ CreateClick(0)
  \/ nextOid < MaxProducts /\ \E i \in 1..Len(productList) : CloneClick(i, 0)
  \/ \E i \in 1..Len(productList) : RemoveClick(i)
  \/ ClearClick
  \/ Unregister("book")
  \/ Register("book", "ClothingCreator")

SpecClone == Init /\ [][NextClone]_vars

\* The page as its list grows and shrinks while time passes.
NextUI ==
  \/ /\ nextOid = 0
     /\ \/ \E s \in NameInputs : TypeName(s)
        \/ \E s \in PriceInputs : TypePrice(s)
  \/ \E t \in SelectOptions : SelectType(t)
  \/ nextOid < MaxProducts /\ \E r \in Rands : CreateClick(r)
  \/ nextOid < MaxProducts
       /\ \E i \in 1..Len(productList), r \in Rands : CloneClick(i, r)
  \/ \E i \in 1..Len(productList) : RemoveClick(i)
  \/ ClearClick
  \/ Tick
  \/ Unregister("book")
  \/ Register("book", "BookCreator")

SpecUI == Init /\ [][NextUI]_vars

(***************************************************************************)
(* Claims about the registry                                               *)
(***************************************************************************)
\* Whether registry m holds an entry for tag t, and the creator of that entry.
Registered(m, t) == \E i \in 1..Len(m) : m[i].type = t
CreatorAt(m, t) == m[CHOOSE i \in 1..Len(m) : m[i].type = t].creator

\* Whether result is what creator c's create returns for data.
IsCreateOf(result, c, data) ==
  \E o \in 0..MaxProducts, tm \in 0..MaxTime, r \in Rands :
    result = CreatorCreate(c, data, o, tm, r)

\* Whether result is the unregistered-type error naming tag t.
IsUnregisteredError(result, t) ==
  /\ result.thrown
  /\ result.value = NoProduct
  /\ result.message = NoCreatorMessage(t)
  /\ \E k \in 1..Len(result.message) : result.message[k] = t

\* C1: ProductFactory.create(tag, data) on a tag without a creator throws the
\* unregistered-type error naming the tag, returns no product and leaves the
\* registry as it was; on a tag with a creator it returns what that creator's
\* create(data) returns.
C1_CreateContract ==
  [][last'.op = "create" =>
       /\ registry' = registry
       /\ IF Registered(registry, last'.type)
          THEN IsCreateOf(last'.result, CreatorAt(registry, last'.type), last'.data)
          ELSE IsUnregisteredError(last'.result, last'.type)]_vars

C1_Witness ==
  /\ last.op = "create"
  /\ last.type = "widget"
  /\ ~Registered(registry, "widget")
  /\ last.result.thrown
  /\ last.uncaught = NoCreatorMessage("widget")

\* C2: for every tag, create follows the latest register or unregister call
\* on it: after register(t, c) it returns what c.create(data) returns, after
\* unregister(t) it throws the unregistered-type error, built-in tags included.
C2_LatestCallDecides ==
  last.op = "create" =>
    /\ lastCall[last.type] \in Creators =>
         IsCreateOf(last.result, lastCall[last.type], last.data)
    /\ lastCall[last.type] = "unregister" =>
         IsUnregisteredError(last.result, last.type)

C2_Witness ==
  /\ last.op = "create"
  /\ last.type = "book"
  /\ lastCall["book"] = "ClothingCreator"
  /\ lastCall["electronics"] = "unregister"
  /\ ~last.result.thrown
  /\ last.result.value.cls = "ClothingProduct"

\* C3: the registry holds at most one creator per tag and availableTypes()
\* lists each registered tag exactly once; register(t, c) on a registered t
\* replaces its creator and changes no other tag's mapping; unregister(t) on a
\* tag that is not registered changes nothing, and a second unregister(t)
\* changes nothing.
OneCreatorPerTag(m) ==
  \A i, j \in 1..Len(m) : i # j => m[i].type # m[j].type

ListsEachTagOnce(m) ==
  \A t \in Tags :
    Cardinality({k \in 1..Len(AvailableTypesIn(m)) : AvailableTypesIn(m)[k] = t})
      = IF Registered(m, t) THEN 1 ELSE 0

SameMapping(m1, m2, t) ==
  /\ Registered(m1, t) <=> Registered(m2, t)
  /\ Registered(m1, t) => CreatorAt(m1, t) = CreatorAt(m2, t)

C3_RegistryShape ==
  [][/\ OneCreatorPerTag(registry) /\ OneCreatorPerTag(registry')
     /\ ListsEachTagOnce(registry) /\ ListsEachTagOnce(registry')
     /\ last'.op = "register" =>
          /\ Registered(registry', last'.type)
          /\ CreatorAt(registry', last'.type) = last'.arg
          /\ \A u \in Tags \ {last'.type} : SameMapping(registry, registry', u)
     /\ last'.op = "unregister" =>
          /\ ~Registered(registry, last'.type) => registry' = registry
          /\ ~Registered(registry', last'.type)
          /\ MapDelete(registry', last'.type) = registry'
          /\ \A u \in Tags \ {last'.type} : SameMapping(registry, registry', u)]_vars

\* widget was registered before book's creator was replaced in place.
C3_Witness ==
  /\ last.op = "register"
  /\ last.type = "book"
  /\ last.arg = "ClothingCreator"
  /\ MapKeys(registry) = <<"electronics", "clothing", "book", "widget">>
  /\ CreatorAt(registry, "book") = "ClothingCreator"

(***************************************************************************)
(* Claims about construction                                               *)
(***************************************************************************)
\* The product class each built-in tag stands for.
VariantOf(tag) ==
  CASE tag = "electronics" -> "ElectronicsProduct"
    [] tag = "clothing" -> "ClothingProduct"
    [] tag = "book" -> "BookProduct"

\* C8: in the initial registry, create(tag, data) on a built-in tag returns a
\* product of the variant that matches the tag, for every raw field record,
\* and availableTypes() includes the tag.
C8_BuiltinVariants ==
  /\ registry = InitialRegistry =>
       \A t \in BuiltinTags :
         \E k \in 1..Len(AvailableTypesIn(registry)) : AvailableTypesIn(registry)[k] = t
  /\ (last.op = "create" /\ last.type \in BuiltinTags /\ registry = InitialRegistry) =>
       /\ ~last.result.thrown
       /\ last.result.value.cls = VariantOf(last.type)

C8_Witness ==
  /\ last.op = "create"
  /\ last.type = "book"
  /\ last.data.price = Str(<<"b", "a", "d">>)
  /\ registry = InitialRegistry
  /\ last.result.value.cls = "BookProduct"

\* Whether price input x is missing or not a number parseFloat reads.
InvalidPrice(x) == x.t = "undef" \/ ParseFloat(x).k = "nan"

\* C4: every constructed product's price is a finite number >= 0, and is
\* exactly 0 when the price input is missing or invalid.
C4_PriceFiniteNonNegative ==
  (last.op = "create" /\ ~last.result.thrown) =>
    LET price == last.result.value.price
    IN /\ price.t = "num"
       /\ price.n.k = "fin"
       /\ price.n.v >= 0
       /\ InvalidPrice(last.data.price) => price.n.v = 0

\* Whether x is a number that is an integer >= 0.
NonNegativeInteger(x) ==
  /\ x.t = "num"
  /\ x.n.k = "fin"
  /\ x.n.v >= 0
  /\ x.n.v % Scale = 0

\* C9: after construction warrantyYears and pages are non-negative integers
\* (1 and 0 when omitted), size is one of S, M, L, XL (M when omitted), and
\* brand, material and author are "Unknown" when omitted.
C9_FieldsInDomain ==
  (last.op = "create" /\ ~last.result.thrown) =>
    LET own == Meta(last.result.value)
        cls == last.result.value.cls
        data == last.data
    IN /\ cls = "ElectronicsProduct" =>
            /\ NonNegativeInteger(own.warrantyYears)
            /\ data.warrantyYears = Undef => own.warrantyYears = NumV(IntNum(1))
            /\ data.brand = Undef => own.brand = Str(UnknownStr)
       /\ cls = "ClothingProduct" =>
            /\ own.size.t = "str" /\ own.size.s \in SizeOptions
            /\ data.size = Undef => own.size = Str(<<"M">>)
            /\ data.material = Undef => own.material = Str(UnknownStr)
       /\ cls = "BookProduct" =>
            /\ NonNegativeInteger(own.pages)
            /\ data.pages = Undef => own.pages = NumV(IntNum(0))
            /\ data.author = Undef => own.author = Str(UnknownStr)

(***************************************************************************)
(* Claims about the UI                                                     *)
(***************************************************************************)
\* The creator the script registers for a built-in tag.
BuiltinCreator(tag) == CreatorAt(InitialRegistry, tag)

\* The objects the UI holds.
HeldOids ==
  {created[k].oid : k \in 1..Len(created)}
    \cup {productList[k].prod.oid : k \in 1..Len(productList)}

\* A clone click on product p has appended exactly one new product: same
\* variant, same metadata, same price, p's name followed by " (clone)".
CloneAppended(p) ==
  LET q == last'.result.value
  IN /\ ~last'.result.thrown
     /\ created' = Append(created, q)
     /\ productList' = Append(productList, Li(q))
     /\ q.cls = p.cls
     /\ Meta(q) = Meta(p)
     /\ q.price = p.price
     /\ q.name = Str(p.name.s \o CloneSuffix)
     /\ q.oid \notin HeldOids

\* C5 as stated: in any state, whatever register and unregister calls came
\* before, a clone click on a listed product appends its copy.
C5_CloneAlways ==
  [][last'.op = "cloneClick" => CloneAppended(last'.arg)]_vars

\* C5, amended: while the registry maps the product's variant tag to the
\* built-in creator of that variant, a clone click on a listed product
\* appends exactly one new product with the same variant, metadata and price
\* and the name followed by " (clone)", and leaves the others as they were.
C5_CloneUnderBuiltinCreator ==
  [][(/\ last'.op = "cloneClick"
      /\ Registered(registry, CloneType(last'.arg))
      /\ CreatorAt(registry, CloneType(last'.arg))
           = BuiltinCreator(CloneType(last'.arg)))
       => CloneAppended(last'.arg)]_vars

C5_Witness ==
  /\ last.op = "cloneClick"
  /\ ~last.result.thrown
  /\ last.arg.cls = "ElectronicsProduct"
  /\ last.arg.price = NumV(Fin(-500))
  /\ Meta(last.arg).warrantyYears = NumV(IntNum(-2))
  /\ last.arg.name = Str(<<"A">>)
  /\ Len(created) = 2
  /\ created[2] = last.result.value
  /\ created[2].name = Str(<<"A">> \o CloneSuffix)
  /\ lastCall["book"] = "unregister"

\* C6: any two products the UI holds have different identifiers.
C6_IdsUnique ==
  \A i, j \in 1..Len(created) :
    created[i].oid # created[j].oid => created[i].id # created[j].id

\* C7: when a create click or a clone click makes ProductFactory.create
\* fail, the message is shown to the user and the list, the rendered list and
\* the name and price fields stay as they were.
C7_FailureShown ==
  [][(last'.op \in {"createClick", "cloneClick"} /\ last'.result.thrown) =>
       /\ last'.alert = last'.result.message
       /\ UNCHANGED <<created, productList, nameInput, priceInput>>]_vars

\* C10: created and the rendered list hold the same products in the same
\* order, each entry carrying its product's id.
C10_ListsAgree ==
  /\ Len(productList) = Len(created)
  /\ \A k \in 1..Len(created) :
       /\ productList[k].prod = created[k]
       /\ productList[k].id = created[k].id

====
